---- MODULE Spec2Model ----
(***************************************************************************)
(* convertMoxToDeckboxCsv.py: the conversion of a Moxfield collection      *)
(* export (CSV) into the CSV that Deckbox imports.                         *)
(*                                                                         *)
(* A Python str is modelled as a sequence of one-character strings, so     *)
(* that strip(), upper(), startswith() and the Decimal constructor are     *)
(* computed character by character.  A dict is a function whose domain is  *)
(* its set of keys (column names are plain strings).  A call that can      *)
(* raise returns an outcome: [raise |-> "", value |-> v] when it returns   *)
(* v, and [raise |-> <exception>, value |-> None] when it raises.          *)
(***************************************************************************)
EXTENDS Integers, Sequences, FiniteSets, TLC

VARIABLES infile, pos, in_row, out_row, outfile, pc

vars == <<infile, pos, in_row, out_row, outfile, pc>>

(***************************************************************************)
(* Bounds of the model.                                                    *)
(***************************************************************************)
\* rows in an input file of the batch runs
MaxRows == 3

\* characters in a generated Purchase Price text
MaxPriceLen == 3

\* characters in a generated Edition text
MaxEditionLen == 3

(***************************************************************************)
(* Python values and str methods.                                          *)
(***************************************************************************)
\* Python's None: no str, since its only element is not a character
None == <<"<None>">>

Return(v) == [raise |-> "", value |-> v]

Raise(e) == [raise |-> e, value |-> None]

Min(S) == CHOOSE x \in S : \A y \in S : x <= y

Max(S) == CHOOSE x \in S : \A y \in S : y <= x

Whitespace == {" ", "\t", "\n", "\r"}

LowerAlpha == <<"a", "b", "c", "d", "e", "f", "g", "h", "i", "j", "k", "l", "m", "n", "o", "p", "q", "r", "s", "t", "u", "v", "w", "x", "y", "z">>

UpperAlpha == <<"A", "B", "C", "D", "E", "F", "G", "H", "I", "J", "K", "L", "M", "N", "O", "P", "Q", "R", "S", "T", "U", "V", "W", "X", "Y", "Z">>

DigitChars == <<"0", "1", "2", "3", "4", "5", "6", "7", "8", "9">>

IsChar(c, alphabet) == \E i \in 1..Len(alphabet) : alphabet[i] = c

IndexIn(c, alphabet) == CHOOSE i \in 1..Len(alphabet) : alphabet[i] = c

\* the characters a..b of s (1-based, both included); empty when b < a
Slice(s, a, b) == [i \in 1..(b - a + 1) |-> s[a + i - 1]]

\* str.strip(): leading and trailing whitespace removed
strip(s) ==
    LET keep == {i \in 1..Len(s) : s[i] \notin Whitespace}
    IN  IF keep = {} THEN <<>> ELSE Slice(s, Min(keep), Max(keep))

\* str.upper()
upper(s) ==
    [i \in 1..Len(s) |->
        IF IsChar(s[i], LowerAlpha) THEN UpperAlpha[IndexIn(s[i], LowerAlpha)] ELSE s[i]]

\* str.lower()
lower(s) ==
    [i \in 1..Len(s) |->
        IF IsChar(s[i], UpperAlpha) THEN LowerAlpha[IndexIn(s[i], UpperAlpha)] ELSE s[i]]

\* str.startswith(prefix)
startswith(s, prefix) ==
    /\ Len(s) >= Len(prefix)
    /\ \A i \in 1..Len(prefix) : s[i] = prefix[i]

\* dict.get(key, default)
get(d, key, default) == IF key \in DOMAIN d THEN d[key] ELSE default

\* the dict after d[items[1][1]] = items[1][2], d[items[2][1]] = items[2][2], ...:
\* an assignment adds the key or replaces its value, so the last one stands
Assigned(d, items) ==
    [k \in DOMAIN d \cup {items[i][1] : i \in 1..Len(items)} |->
        IF \E i \in 1..Len(items) : items[i][1] = k
            THEN items[Max({i \in 1..Len(items) : items[i][1] = k})][2]
            ELSE d[k]]

\* a dict display {k1: v1, k2: v2, ...}
Dict(items) == Assigned(<<>>, items)

(***************************************************************************)
(* decimal.Decimal under the default context: prec = 28, ROUND_HALF_EVEN.  *)
(* A Decimal is [kind, sign, int, exp]: kind is "finite", "inf", "nan" or  *)
(* "snan"; sign is 0 or 1; int is the coefficient's digits, most           *)
(* significant first, <<0>> for zero; the value is                         *)
(* (-1)^sign * int * 10^exp.                                               *)
(***************************************************************************)
\* decimal.getcontext().prec, the precision quantize() checks its result against
prec == 28

IsDigits(s) == \A i \in 1..Len(s) : IsChar(s[i], DigitChars)

DigitsOf(s) == [i \in 1..Len(s) |-> IndexIn(s[i], DigitChars) - 1]

\* the first index of character c in s, 0 when there is none
IndexOf(s, c) ==
    LET at == {i \in 1..Len(s) : s[i] = c}
    IN  IF at = {} THEN 0 ELSE Min(at)

\* the part of s before the first c (s when there is none)
Before(s, c) == IF IndexOf(s, c) = 0 THEN s ELSE Slice(s, 1, IndexOf(s, c) - 1)

\* the part of s after the first c (empty when there is none)
After(s, c) == IF IndexOf(s, c) = 0 THEN <<>> ELSE Slice(s, IndexOf(s, c) + 1, Len(s))

\* a coefficient without its leading zeros; <<0>> for zero
Normal(ds) ==
    LET nz == {i \in 1..Len(ds) : ds[i] # 0}
    IN  IF nz = {} THEN <<0>> ELSE Slice(ds, Min(nz), Len(ds))

RECURSIVE IntOf(_)
\* int() of a sequence of digits
IntOf(ds) ==
    IF Len(ds) = 0 THEN 0 ELSE 10 * IntOf(Slice(ds, 1, Len(ds) - 1)) + ds[Len(ds)]

Zeros(n) == [i \in 1..n |-> 0]

Dec(kind, sign, int, exp) == [kind |-> kind, sign |-> sign, int |-> int, exp |-> exp]

IsSigned(s) == Len(s) > 0 /\ s[1] \in {"-", "+"}

SignOf(s) == IF Len(s) > 0 /\ s[1] = "-" THEN 1 ELSE 0

Unsigned(s) == IF IsSigned(s) THEN Tail(s) ELSE s

\* digits [. [digits]] | . digits, then [E [sign] digits] when the text has an E
IsNumeric(intpart, fracpart, hasexp, expdigits) ==
    /\ IsDigits(intpart)
    /\ IsDigits(fracpart)
    /\ Len(intpart) + Len(fracpart) > 0
    /\ hasexp => (Len(expdigits) > 0 /\ IsDigits(expdigits))

Finite(sign, intpart, fracpart, exptext) ==
    Dec("finite", sign, Normal(DigitsOf(intpart \o fracpart)),
        (IF SignOf(exptext) = 1 THEN 0 - IntOf(DigitsOf(Unsigned(exptext)))
                                ELSE IntOf(DigitsOf(Unsigned(exptext)))) - Len(fracpart))

\* the number or special value an unsigned, lower-case text denotes
DecimalBody(sign, body) ==
    IF IsNumeric(Before(Before(body, "e"), "."), After(Before(body, "e"), "."),
                 IndexOf(body, "e") # 0, Unsigned(After(body, "e")))
        THEN Return(Finite(sign, Before(Before(body, "e"), "."),
                           After(Before(body, "e"), "."), After(body, "e")))
    ELSE IF body = <<"i", "n", "f">> \/ body = <<"i", "n", "f", "i", "n", "i", "t", "y">>
        THEN Return(Dec("inf", sign, <<0>>, 0))
    ELSE IF startswith(body, <<"n", "a", "n">>) /\ IsDigits(Slice(body, 4, Len(body)))
        THEN Return(Dec("nan", sign, Normal(DigitsOf(Slice(body, 4, Len(body)))), 0))
    ELSE IF startswith(body, <<"s", "n", "a", "n">>) /\ IsDigits(Slice(body, 5, Len(body)))
        THEN Return(Dec("snan", sign, Normal(DigitsOf(Slice(body, 5, Len(body)))), 0))
    ELSE Raise("InvalidOperation")

DecimalText(s) == DecimalBody(SignOf(s), Unsigned(s))

\* Decimal(value): the constructor's parse of a str, whitespace stripped,
\* underscores dropped, letters in any case; raises InvalidOperation when the
\* text is not of the form
\*   [sign] (digits [. [digits]] | . digits) [E [sign] digits]
\*   | [sign] Inf[inity] | [sign] [s]NaN[digits]
Decimal(value) == DecimalText(lower(SelectSeq(strip(value), LAMBDA c : c # "_")))

RECURSIVE Increment(_)
\* int(coeff) + 1 on a sequence of digits
Increment(ds) ==
    IF Len(ds) = 0 THEN <<1>>
    ELSE IF ds[Len(ds)] < 9 THEN [ds EXCEPT ![Len(ds)] = ds[Len(ds)] + 1]
    ELSE Increment(Slice(ds, 1, Len(ds) - 1)) \o <<0>>

\* Decimal._round_half_even: whether the coefficient cut to its first `keep`
\* digits is rounded away from zero
RoundsUp(int, keep) ==
    LET exactHalf == int[keep + 1] = 5 /\ \A i \in (keep + 2)..Len(int) : int[i] = 0
    IN  IF exactHalf /\ (keep = 0 \/ int[keep] \in {0, 2, 4, 6, 8}) THEN FALSE
        ELSE int[keep + 1] >= 5

\* the first `keep` digits of the coefficient, rounded
Rounded(int, keep) ==
    IF keep < 0 THEN <<0>>
    ELSE IF RoundsUp(int, keep)
        THEN Normal(Increment(IF keep = 0 THEN <<0>> ELSE Slice(int, 1, keep)))
    ELSE IF keep = 0 THEN <<0>> ELSE Slice(int, 1, keep)

\* Decimal._rescale(exp, ROUND_HALF_EVEN): the coefficient at exponent exp
Rescale(d, exp) ==
    IF d.exp >= exp THEN d.int \o Zeros(d.exp - exp)
    ELSE Rounded(d.int, Len(d.int) + d.exp - exp)

\* the rescaled coefficient as the result, unless it has more than prec digits
Fitted(sign, coeff, exp) ==
    IF Len(coeff) > prec THEN Raise("InvalidOperation")
    ELSE Return(Dec("finite", sign, coeff, exp))

\* d.quantize(Decimal('0.01')): d rounded to exponent -2; InvalidOperation for
\* an infinity, a signalling NaN and a result of more than prec digits
quantize(d) ==
    IF d.kind = "nan" THEN Return(d)
    ELSE IF d.kind \in {"snan", "inf"} THEN Raise("InvalidOperation")
    ELSE IF d.int = <<0>> THEN Return(Dec("finite", d.sign, <<0>>, 0 - 2))
    ELSE IF Len(d.int) + d.exp + 2 > prec THEN Raise("InvalidOperation")
    ELSE Fitted(d.sign, Rescale(d, 0 - 2), 0 - 2)

DigitText(int) == [i \in 1..Len(int) |-> DigitChars[int[i] + 1]]

\* str(d) of a NaN or of a finite Decimal with exp <= 0 (no exponent is printed)
str(d) ==
    LET leftdigits == Len(d.int) + d.exp
        intpart    == IF leftdigits <= 0 THEN <<"0">> ELSE Slice(DigitText(d.int), 1, leftdigits)
        fracpart   == IF leftdigits <= 0
                          THEN [i \in 1..(0 - leftdigits) |-> "0"] \o DigitText(d.int)
                          ELSE Slice(DigitText(d.int), leftdigits + 1, Len(d.int))
        signtext   == IF d.sign = 1 THEN <<"-">> ELSE <<>>
    IN  IF d.kind = "nan"
            THEN signtext \o <<"N", "a", "N">> \o (IF d.int = <<0>> THEN <<>> ELSE DigitText(d.int))
        ELSE IF d.exp = 0 THEN signtext \o intpart
        ELSE signtext \o intpart \o <<".">> \o fracpart

(***************************************************************************)
(* format_price                                                            *)
(***************************************************************************)
\* return f"${d.quantize(Decimal('0.01'))}", q the outcome of the quantize
FormatQuantized(q) ==
    IF q.raise # "" THEN Raise(q.raise) ELSE Return(<<"$">> \o str(q.value))

\* the parse without the try: its exception leaves format_price
FormatParsedUncaught(d) ==
    IF d.raise # "" THEN Raise(d.raise) ELSE FormatQuantized(quantize(d.value))

\* try: d = Decimal(s) / except (InvalidOperation, ValueError): return "$0.00"
FormatParsed(d) ==
    IF d.raise \in {"InvalidOperation", "ValueError"} THEN Return(<<"$", "0", ".", "0", "0">>)
    ELSE FormatQuantized(quantize(d.value))

\* if s.startswith("$"): s = s[1:].strip()
StripDollar(s) == IF startswith(s, <<"$">>) THEN strip(Tail(s)) ELSE s

format_price(value) ==
    IF value = None \/ value = <<>> THEN Return(<<"$", "0", ".", "0", "0">>)
    ELSE FormatParsed(Decimal(StripDollar(strip(value))))

(***************************************************************************)
(* The module's tables.                                                    *)
(***************************************************************************)
\* Moxfield edition code to Deckbox edition code
edition_code_map ==
    Dict(<<
       <<<<"P", "L", "S", "T">>, <<"P", "L", "I", "S", "T">>>>,
       <<<<"3", "E", "D">>, <<"3", "E">>>>,
       <<<<"F", "1", "1">>, <<"F", "N", "M", "P">>>>,
       <<<<"M", "I", "R">>, <<"M", "I">>>>,
       <<<<"I", "C", "E">>, <<"I", "A">>>>,
       <<<<"U", "L", "G">>, <<"G", "U">>>> >>)

\* Moxfield edition code to Deckbox Edition (the set name)
edition_map ==
    Dict(<<
       <<<<"I", "S", "D">>, <<"I", "n", "n", "i", "s", "t", "r", "a", "d">>>>,
       <<<<"I", "N", "R">>, <<"I", "n", "n", "i", "s", "t", "r", "a", "d", " ", "R", "e", "m", "a", "s", "t", "e", "r", "e", "d">>>>,
       <<<<"C", "M", "M">>, <<"C", "o", "m", "m", "a", "n", "d", "e", "r", " ", "M", "a", "s", "t", "e", "r", "s">>>>,
       <<<<"B", "L", "C">>, <<"B", "l", "o", "o", "m", "b", "u", "r", "r", "o", "w", " ", "C", "o", "m", "m", "a", "n", "d", "e", "r">>>>,
       <<<<"T", "D", "M">>, <<"T", "a", "r", "k", "i", "r", ":", " ", "D", "r", "a", "g", "o", "n", "s", "t", "o", "r", "m">>>>,
       <<<<"O", "T", "C">>, <<"O", "u", "t", "l", "a", "w", "s", " ", "o", "f", " ", "T", "h", "u", "n", "d", "e", "r", " ", "J", "u", "n", "c", "t", "i", "o", "n", " ", "C", "o", "m", "m", "a", "n", "d", "e", "r">>>>,
       <<<<"M", "H", "3">>, <<"M", "o", "d", "e", "r", "n", " ", "H", "o", "r", "i", "z", "o", "n", "s", " ", "3">>>>,
       <<<<"M", "1", "3">>, <<"M", "a", "g", "i", "c", " ", "2", "0", "1", "3">>>>,
       <<<<"D", "S", "K">>, <<"D", "u", "s", "k", "m", "o", "u", "r", "n", ":", " ", "H", "o", "u", "s", "e", " ", "o", "f", " ", "H", "o", "r", "r", "o", "r">>>>,
       <<<<"E", "O", "E">>, <<"E", "d", "g", "e", " ", "o", "f", " ", "E", "t", "e", "r", "n", "i", "t", "i", "e", "s">>>>,
       <<<<"M", "3", "C">>, <<"M", "o", "d", "e", "r", "n", " ", "H", "o", "r", "i", "z", "o", "n", "s", " ", "3", " ", "C", "o", "m", "m", "a", "n", "d", "e", "r">>>>,
       <<<<"T", "D", "C">>, <<"T", "a", "r", "k", "i", "r", ":", " ", "D", "r", "a", "g", "o", "n", "s", "t", "o", "r", "m", " ", "C", "o", "m", "m", "a", "n", "d", "e", "r">>>>,
       <<<<"A", "V", "R">>, <<"A", "v", "a", "c", "y", "n", " ", "R", "e", "s", "t", "o", "r", "e", "d">>>>,
       <<<<"M", "R", "D">>, <<"M", "i", "r", "r", "o", "d", "i", "n">>>>,
       <<<<"L", "T", "R">>, <<"T", "h", "e", " ", "L", "o", "r", "d", " ", "o", "f", " ", "t", "h", "e", " ", "R", "i", "n", "g", "s", ":", " ", "T", "a", "l", "e", "s", " ", "o", "f", " ", "M", "i", "d", "d", "l", "e", "-", "e", "a", "r", "t", "h">>>>,
       <<<<"O", "N", "E">>, <<"P", "h", "y", "r", "e", "x", "i", "a", ":", " ", "A", "l", "l", " ", "W", "i", "l", "l", " ", "B", "e", " ", "O", "n", "e">>>>,
       <<<<"M", "K", "C">>, <<"M", "u", "r", "d", "e", "r", "s", " ", "a", "t", " ", "K", "a", "r", "l", "o", "v", " ", "M", "a", "n", "o", "r", " ", "C", "o", "m", "m", "a", "n", "d", "e", "r">>>>,
       <<<<"B", "L", "B">>, <<"B", "l", "o", "o", "m", "b", "u", "r", "r", "o", "w">>>>,
       <<<<"E", "O", "C">>, <<"E", "d", "g", "e", " ", "o", "f", " ", "E", "t", "e", "r", "n", "i", "t", "i", "e", "s", " ", "C", "o", "m", "m", "a", "n", "d", "e", "r">>>>,
       <<<<"L", "T", "C">>, <<"T", "h", "e", " ", "L", "o", "r", "d", " ", "o", "f", " ", "t", "h", "e", " ", "R", "i", "n", "g", "s", ":", " ", "T", "a", "l", "e", "s", " ", "o", "f", " ", "M", "i", "d", "d", "l", "e", "-", "e", "a", "r", "t", "h", " ", "C", "o", "m", "m", "a", "n", "d", "e", "r">>>>,
       <<<<"C", "2", "0">>, <<"C", "o", "m", "m", "a", "n", "d", "e", "r", " ", "2", "0", "2", "0">>>>,
       <<<<"S", "L", "D">>, <<"S", "e", "c", "r", "e", "t", " ", "L", "a", "i", "r", " ", "D", "r", "o", "p", " ", "S", "e", "r", "i", "e", "s">>>>,
       <<<<"D", "K", "A">>, <<"D", "a", "r", "k", " ", "A", "s", "c", "e", "n", "s", "i", "o", "n">>>>,
       <<<<"L", "C", "C">>, <<"T", "h", "e", " ", "L", "o", "s", "t", " ", "C", "a", "v", "e", "r", "n", "s", " ", "o", "f", " ", "I", "x", "a", "l", "a", "n", " ", "C", "o", "m", "m", "a", "n", "d", "e", "r">>>>,
       <<<<"E", "O", "S">>, <<"E", "d", "g", "e", " ", "o", "f", " ", "E", "t", "e", "r", "n", "i", "t", "i", "e", "s", ":", " ", "S", "t", "e", "l", "l", "a", "r", " ", "S", "i", "g", "h", "t", "s">>>>,
       <<<<"F", "D", "N">>, <<"F", "o", "u", "n", "d", "a", "t", "i", "o", "n", "s">>>>,
       <<<<"C", "L", "U">>, <<"R", "a", "v", "n", "i", "c", "a", ":", " ", "C", "l", "u", "e", " ", "E", "d", "i", "t", "i", "o", "n">>>>,
       <<<<"S", "C", "G">>, <<"S", "c", "o", "u", "r", "g", "e">>>>,
       <<<<"3", "E", "D">>, <<"R", "e", "v", "i", "s", "e", "d", " ", "E", "d", "i", "t", "i", "o", "n">>>>,
       <<<<"P", "L", "S", "T">>, <<"T", "h", "e", " ", "L", "i", "s", "t">>>>,
       <<<<"C", "2", "1">>, <<"C", "o", "m", "m", "a", "n", "d", "e", "r", " ", "2", "0", "2", "1">>>>,
       <<<<"M", "1", "4">>, <<"M", "a", "g", "i", "c", " ", "2", "0", "1", "4", " ", "C", "o", "r", "e", " ", "S", "e", "t">>>>,
       <<<<"M", "1", "2">>, <<"M", "a", "g", "i", "c", " ", "2", "0", "1", "2">>>>,
       <<<<"2", "X", "2">>, <<"D", "o", "u", "b", "l", "e", " ", "M", "a", "s", "t", "e", "r", "s", " ", "2", "0", "2", "2">>>>,
       <<<<"F", "N", "M", "P">>, <<"F", "r", "i", "d", "a", "y", " ", "N", "i", "g", "h", "t", " ", "M", "a", "g", "i", "c">>>>,
       <<<<"D", "O", "M">>, <<"D", "o", "m", "i", "n", "a", "r", "i", "a">>>>,
       <<<<"D", "S", "C">>, <<"D", "u", "s", "k", "m", "o", "u", "r", "n", ":", " ", "H", "o", "u", "s", "e", " ", "o", "f", " ", "H", "o", "r", "r", "o", "r", " ", "C", "o", "m", "m", "a", "n", "d", "e", "r">>>>,
       <<<<"A", "K", "H">>, <<"A", "m", "o", "n", "k", "h", "e", "t">>>>,
       <<<<"S", "O", "M">>, <<"S", "c", "a", "r", "s", " ", "o", "f", " ", "M", "i", "r", "r", "o", "d", "i", "n">>>>,
       <<<<"S", "P", "G">>, <<"S", "p", "e", "c", "i", "a", "l", " ", "G", "u", "e", "s", "t", "s">>>>,
       <<<<"R", "V", "R">>, <<"R", "a", "v", "n", "i", "c", "a", " ", "R", "e", "m", "a", "s", "t", "e", "r", "e", "d">>>>,
       <<<<"C", "1", "3">>, <<"C", "o", "m", "m", "a", "n", "d", "e", "r", " ", "2", "0", "1", "3">>>>,
       <<<<"T", "O", "R">>, <<"T", "o", "r", "m", "e", "n", "t">>>>,
       <<<<"D", "I", "S">>, <<"D", "i", "s", "s", "e", "n", "s", "i", "o", "n">>>>,
       <<<<"O", "G", "W">>, <<"O", "a", "t", "h", " ", "o", "f", " ", "t", "h", "e", " ", "G", "a", "t", "e", "w", "a", "t", "c", "h">>>>,
       <<<<"M", "B", "S">>, <<"M", "i", "r", "r", "o", "d", "i", "n", " ", "B", "e", "s", "i", "e", "g", "e", "d">>>>,
       <<<<"M", "H", "2">>, <<"M", "o", "d", "e", "r", "n", " ", "H", "o", "r", "i", "z", "o", "n", "s", " ", "2">>>>,
       <<<<"H", "O", "U">>, <<"H", "o", "u", "r", " ", "o", "f", " ", "D", "e", "v", "a", "s", "t", "a", "t", "i", "o", "n">>>>,
       <<<<"B", "R", "R">>, <<"T", "h", "e", " ", "B", "r", "o", "t", "h", "e", "r", "s", "'", " ", "W", "a", "r", " ", "R", "e", "t", "r", "o", " ", "A", "r", "t", "i", "f", "a", "c", "t", "s">>>>,
       <<<<"4", "0", "K">>, <<"W", "a", "r", "h", "a", "m", "m", "e", "r", " ", "4", "0", ",", "0", "0", "0">>>>,
       <<<<"M", "H", "1">>, <<"M", "o", "d", "e", "r", "n", " ", "H", "o", "r", "i", "z", "o", "n", "s">>>>,
       <<<<"S", "C", "D">>, <<"S", "t", "a", "r", "t", "e", "r", " ", "C", "o", "m", "m", "a", "n", "d", "e", "r", " ", "D", "e", "c", "k", "s">>>>,
       <<<<"2", "X", "M">>, <<"D", "o", "u", "b", "l", "e", " ", "M", "a", "s", "t", "e", "r", "s">>>>,
       <<<<"F", "1", "1">>, <<"F", "r", "i", "d", "a", "y", " ", "N", "i", "g", "h", "t", " ", "M", "a", "g", "i", "c">>>>,
       <<<<"M", "I", "R">>, <<"M", "i", "r", "a", "g", "e">>>>,
       <<<<"I", "C", "E">>, <<"I", "c", "e", " ", "A", "g", "e">>>>,
       <<<<"U", "L", "G">>, <<"U", "r", "z", "a", "'", "s", " ", "L", "e", "g", "a", "c", "y">>>> >>)

\* the columns with Edition and Edition Code in each other's place
output_columns_swapped ==
    << "Count", "Tradelist Count", "Name", "Edition Code", "Edition", "Card Number",
       "Condition", "Language", "Foil", "Signed", "Artist Proof", "Altered Art",
       "Misprint", "Promo", "Textless", "Printing Id", "Printing Note", "Tags",
       "My Price" >>

output_columns ==
    << "Count", "Tradelist Count", "Name", "Edition", "Edition Code", "Card Number",
       "Condition", "Language", "Foil", "Signed", "Artist Proof", "Altered Art",
       "Misprint", "Promo", "Textless", "Printing Id", "Printing Note", "Tags",
       "My Price" >>

(***************************************************************************)
(* convert_row                                                             *)
(***************************************************************************)
\* x or "": the empty str for a falsy x (None, "")
OrEmpty(x) == IF x = None \/ x = <<>> THEN <<>> ELSE x

\* a source value that lost its surrounding whitespace on the way
SourceStripped(old_row, column) ==
    IF get(old_row, column, <<>>) = None THEN None ELSE strip(get(old_row, column, <<>>))

\* old_row.get(column, ""): a source value
Source(old_row, column) == get(old_row, column, <<>>)

\* the code upper-cased but not stripped
NormalizedCodeUnstripped(old_row) == upper(OrEmpty(Source(old_row, "Edition")))

\* edition_code = (old_row.get("Edition", "") or "").strip().upper()
NormalizedCode(old_row) == upper(strip(OrEmpty(Source(old_row, "Edition"))))

\* the Deckbox code looked up without the code itself as the default
EditionCodeWithoutDefault(edition_code) == get(edition_code_map, edition_code, None)

\* edition_code_map.get(edition_code, edition_code)
EditionCode(edition_code) == get(edition_code_map, edition_code, edition_code)

\* the set name looked up under the Deckbox code instead of the Moxfield code
EditionNameOfDeckboxCode(edition_code) ==
    get(edition_map, upper(EditionCode(edition_code)), None)

\* edition_map.get(edition_code.upper())
EditionName(edition_code) == get(edition_map, upper(edition_code), None)

\* the row with Tradelist Count assigned the count instead of "0"
ConvertedTradelistFromCount(old_row, edition_code, my_price) ==
    LET new_row == [col \in {output_columns[i] : i \in 1..Len(output_columns)} |-> <<>>]
    IN  IF my_price.raise # "" THEN Raise(my_price.raise)
        ELSE Return(Assigned(new_row, <<
            <<"Count", Source(old_row, "Count")>>,
            <<"Tradelist Count", Source(old_row, "Count")>>,
            <<"Name", Source(old_row, "Name")>>,
            <<"Edition", EditionName(edition_code)>>,
            <<"Edition Code", EditionCode(edition_code)>>,
            <<"Card Number", Source(old_row, "Collector Number")>>,
            <<"Condition", Source(old_row, "Condition")>>,
            <<"Language", Source(old_row, "Language")>>,
            <<"Foil", Source(old_row, "Foil")>>,
            <<"Signed", <<>> >>,
            <<"Artist Proof", <<>> >>,
            <<"Altered Art", <<>> >>,
            <<"Misprint", <<>> >>,
            <<"Promo", <<>> >>,
            <<"Textless", <<>> >>,
            <<"Printing Id", <<>> >>,
            <<"Printing Note", <<>> >>,
            <<"Tags", Source(old_row, "Tags")>>,
            <<"My Price", my_price.value>> >>))

\* new_row = {col: "" for col in output_columns}, the assignments to it and
\* the return; edition_code is the normalized code and my_price the outcome of
\* format_price(purchase_price)
Converted(old_row, edition_code, my_price) ==
    LET new_row       == [col \in {output_columns[i] : i \in 1..Len(output_columns)} |-> <<>>]
        count         == Source(old_row, "Count")
        name          == Source(old_row, "Name")
        collector_num == Source(old_row, "Collector Number")
        condition     == Source(old_row, "Condition")
        language      == Source(old_row, "Language")
        foil          == Source(old_row, "Foil")
        tags          == Source(old_row, "Tags")
    IN  IF my_price.raise # "" THEN Raise(my_price.raise)
        ELSE Return(Assigned(new_row, <<
            <<"Count", count>>,
            <<"Tradelist Count", <<"0">>>>,
            <<"Name", name>>,
            <<"Edition", EditionName(edition_code)>>,
            <<"Edition Code", EditionCode(edition_code)>>,
            <<"Card Number", collector_num>>,
            <<"Condition", condition>>,
            <<"Language", language>>,
            <<"Foil", foil>>,
            <<"Signed", <<>> >>,
            <<"Artist Proof", <<>> >>,
            <<"Altered Art", <<>> >>,
            <<"Misprint", <<>> >>,
            <<"Promo", <<>> >>,
            <<"Textless", <<>> >>,
            <<"Printing Id", <<>> >>,
            <<"Printing Note", <<>> >>,
            <<"Tags", tags>>,
            <<"My Price", my_price.value>> >>))

convert_row(old_row) ==
    Converted(old_row, NormalizedCode(old_row), format_price(Source(old_row, "Purchase Price")))

(***************************************************************************)
(* csv.DictWriter(outfile, fieldnames=output_columns)                      *)
(***************************************************************************)
\* the field the csv writer emits for a value: None is written as the empty field
Field(v) == IF v = None THEN <<>> ELSE v

\* writer.writerow(rowdict): the record appended to the file, its fields in the
\* order of fieldnames; ValueError for a key that is no fieldname
writerow(rowdict) ==
    LET fieldnames == output_columns
    IN  IF \E k \in DOMAIN rowdict : \A i \in 1..Len(fieldnames) : fieldnames[i] # k
            THEN Raise("ValueError")
        ELSE Return([i \in 1..Len(fieldnames) |-> Field(get(rowdict, fieldnames[i], <<>>))])

(***************************************************************************)
(* The input files: the rows csv.DictReader yields, each a dict from the   *)
(* header's column names to a str, or to None where the line is short.     *)
(***************************************************************************)
\* every str of at most n characters of the alphabet
Strings(alphabet, n) ==
    UNION {[1..k -> {alphabet[i] : i \in 1..Len(alphabet)}] : k \in 0..n}

RECURSIVE Files(_, _)
\* every file of at most n rows of the set
Files(rows, n) ==
    IF n = 0 THEN {<<>>}
    ELSE LET shorter == Files(rows, n - 1)
         IN  shorter \cup {Append(f, r) : f \in {g \in shorter : Len(g) = n - 1}, r \in rows}

InputColumns ==
    {"Count", "Name", "Edition", "Collector Number", "Condition", "Language", "Foil",
     "Tags", "Purchase Price"}

BaseRow ==
    Dict(<< <<"Count", <<"4">>>>, <<"Name", <<" ", "L", "l", "a", "n", "o", "w", "a", "r", " ", "E", "l", "v", "e", "s">>>>, <<"Edition", <<"m", "1", "3">>>>,
            <<"Collector Number", <<"1", "8", "2", "a">>>>, <<"Condition", <<"N", "e", "a", "r", " ", "M", "i", "n", "t">>>>,
            <<"Language", <<"G", "e", "r", "m", "a", "n">>>>, <<"Foil", <<"e", "t", "c", "h", "e", "d">>>>, <<"Tags", <<"e", "l", "f", ",", " ", "R", "a", "m", "p", " ">>>>,
            <<"Purchase Price", <<"0", ".", "2", "5">>>> >>)

\* columns of the export that the converter does not read, some named like
\* output columns
ExtraColumns ==
    << <<"Rarity", <<"c", "o", "m", "m", "o", "n">>>>, <<"Tradelist Count", <<"3">>>>, <<"Signed", <<"y", "e", "s">>>>,
       <<"Promo", <<"T", "r", "u", "e">>>>, <<"Card Number", <<"9", "9", "9">>>>, <<"Edition Code", <<"Z", "Z", "Z">>>>,
       <<"My Price", <<"$", "9", ".", "9", "9">>>> >>

PriceAlphabet == << " ", "$", "-", ".", "0", "1", "5", "E" >>

PriceSamples ==
    { <<"$", "3", ".", "5">>, <<"3", ".", "0", "0", "5">>, <<"a", "b", "c">>, <<" ", "$", " ", "1", ".", "2", "5", " ">>, <<"$", "$", "5">>, <<"1", "2", ".", "3", "4", "5">>, <<"2", ".", "6", "7", "5">>,
      <<"N", "a", "N">>, <<"s", "N", "a", "N">>, <<"I", "n", "f", "i", "n", "i", "t", "y">>, <<"-", "i", "n", "f">>, <<"1", "E", "2", "6">>, <<"1", "e", "2", "5">>,
      <<"9", "9", "9", "9", "9", "9", "9", "9", "9", "9", "9", "9", "9", "9", "9", "9", "9", "9", "9", "9", "9", "9", "9", "9", "9", "9", ".", "9", "9", "5">>, <<"1", "_", "0", "0", "0">>, <<"\t", "7", "\t">>, <<".", "0", "0", "5">>, <<".", "0", "1", "5">>,
      <<".", "0", "2", "5">>, <<"-", ".", "0", "0", "1">>, <<"1", "E", "5", "0">>, <<"5", "E", "-", "1">>, <<"$", "-", "1", ".", "5">> }

PriceValues == Strings(PriceAlphabet, MaxPriceLen) \cup PriceSamples \cup {None}

EditionAlphabet == << " ", "m", "M", "i", "I", "r", "R" >>

EditionSamples ==
    { <<" ", "m", "i", "r", " ">>, <<"3", "E", "D">>, <<"3", "e", "d">>, <<"I", "S", "D">>, <<" ", "i", "s", "d">>, <<"P", "L", "S", "T">>, <<"p", "l", "s", "t", " ">>, <<"F", "1", "1">>,
      <<"F", "N", "M", "P">>, <<"I", "C", "E">>, <<"u", "l", "g">>, <<"X", "Y", "Z">>, <<"3", "E">>, <<"\t", "M", "h", "3", " ">>, <<"m", " ", "i", " ", "r">> }

EditionValues == Strings(EditionAlphabet, MaxEditionLen) \cup EditionSamples \cup {None}

Without(row, columns) == [c \in DOMAIN row \ columns |-> row[c]]

PriceRows ==
    {Assigned(BaseRow, << <<"Purchase Price", p>> >>) : p \in PriceValues}
        \cup {Without(BaseRow, {"Purchase Price"})}

EditionRows ==
    {Assigned(BaseRow, << <<"Edition", e>> >>) : e \in EditionValues}
        \cup {Without(BaseRow, {"Edition"})}

\* rows of a file whose header lacks some columns, and short rows (None)
PartialRows ==
    LET full == {BaseRow, Assigned(BaseRow, ExtraColumns)}
    IN  {Without(r, cs) : r \in full, cs \in SUBSET InputColumns}
            \cup {[c \in DOMAIN r |-> IF c \in cs THEN None ELSE r[c]] :
                    r \in full, cs \in SUBSET InputColumns}

BatchRows ==
    { Dict(<< <<"Count", <<"2">>>>, <<"Name", <<"L", "i", "g", "h", "t", "n", "i", "n", "g", " ", "B", "o", "l", "t">>>>, <<"Edition", <<"m", "i", "r">>>>,
              <<"Collector Number", <<"1", "5", "0">>>>, <<"Condition", <<"N", "M">>>>,
              <<"Language", <<"E", "n", "g", "l", "i", "s", "h">>>>, <<"Foil", <<"F", "o", "i", "l">>>>, <<"Tags", <<>> >>,
              <<"Purchase Price", <<"$", "1", ".", "2", "5">>>> >>),
      Assigned(BaseRow, << <<"Edition", <<"x", "y", "z">>>>, <<"Purchase Price", <<"n", "/", "a">>>> >>),
      Assigned(BaseRow, << <<"Purchase Price", <<"I", "n", "f", "i", "n", "i", "t", "y">>>> >>),
      Assigned(BaseRow, ExtraColumns \o << <<"Tags", None>>, <<"Purchase Price", None>> >>),
      Without(BaseRow, {"Edition", "Foil"}) }

InputFiles ==
    {<<r>> : r \in PriceRows \cup EditionRows \cup PartialRows} \cup Files(BatchRows, MaxRows)

(***************************************************************************)
(* The batch: the with block of the module.                                *)
(***************************************************************************)
Init ==
    /\ infile \in InputFiles
    /\ pos = 0
    /\ in_row = <<>>
    /\ out_row = <<>>
    /\ outfile = <<>>
    /\ pc = "start"

\* writer.writeheader()
WriteHeader ==
    /\ pc = "start"
    /\ outfile' = <<output_columns>>
    /\ pc' = "loop"
    /\ UNCHANGED <<infile, pos, in_row, out_row>>

\* for in_row in reader: the next row
NextRow ==
    /\ pc = "loop"
    /\ pos < Len(infile)
    /\ in_row' = infile[pos + 1]
    /\ pos' = pos + 1
    /\ pc' = "convert"
    /\ UNCHANGED <<infile, out_row, outfile>>

\* out_row = convert_row(in_row)
ConvertRow ==
    /\ pc = "convert"
    /\ convert_row(in_row).raise = ""
    /\ out_row' = convert_row(in_row).value
    /\ pc' = "write"
    /\ UNCHANGED <<infile, pos, in_row, outfile>>

\* convert_row(in_row) raises: the exception leaves the loop and the with
\* block (the files are closed) and ends the process with a traceback
ConvertRaises ==
    /\ pc = "convert"
    /\ convert_row(in_row).raise # ""
    /\ pc' = "raised"
    /\ UNCHANGED <<infile, pos, in_row, out_row, outfile>>

\* writer.writerow(out_row)
WriteRow ==
    /\ pc = "write"
    /\ LET written == writerow(out_row)
       IN  IF written.raise # ""
               THEN pc' = "raised" /\ UNCHANGED outfile
               ELSE pc' = "loop" /\ outfile' = Append(outfile, written.value)
    /\ UNCHANGED <<infile, pos, in_row, out_row>>

\* the reader is exhausted: the files are closed and the message is printed
Finish ==
    /\ pc = "loop"
    /\ pos = Len(infile)
    /\ pc' = "done"
    /\ UNCHANGED <<infile, pos, in_row, out_row, outfile>>

Next ==
    \/ WriteHeader
    \/ NextRow
    \/ ConvertRow
    \/ ConvertRaises
    \/ WriteRow
    \/ Finish

Spec == Init /\ [][Next]_vars

(***************************************************************************)
(* The properties.  In a state with pc = "write", out_row is what          *)
(* convert_row returned for in_row; line k + 1 of outfile is the record    *)
(* written for the input row infile[k].                                    *)
(***************************************************************************)
\* the column order of the output format
ExpectedHeader ==
    << "Count", "Tradelist Count", "Name", "Edition", "Edition Code", "Card Number",
       "Condition", "Language", "Foil", "Signed", "Artist Proof", "Altered Art",
       "Misprint", "Promo", "Textless", "Printing Id", "Printing Note", "Tags",
       "My Price" >>

\* the place of a column in a written record
Column(name) == CHOOSE i \in 1..Len(ExpectedHeader) : ExpectedHeader[i] = name

\* an input field as text: the empty text when the field is missing (the
\* header lacks the column, or the line is short and the reader filled in None)
TextOf(row, column) ==
    IF column \in DOMAIN row /\ row[column] # None THEN row[column] ELSE <<>>

\* the input Edition code, stripped and upper-cased
ExpectedCode(row) == upper(strip(TextOf(row, "Edition")))

\* the rows whose record has been written
WrittenRows == 1..(Len(outfile) - 1)

\* the Purchase Price has a text that Decimal() accepts once the surrounding
\* whitespace and one leading $ are removed
PriceParses(row) ==
    /\ TextOf(row, "Purchase Price") # <<>>
    /\ Decimal(StripDollar(strip(TextOf(row, "Purchase Price")))).raise = ""

ParsedPrice(row) == Decimal(StripDollar(strip(TextOf(row, "Purchase Price")))).value

ZeroPrice == <<"$", "0", ".", "0", "0">>

RECURSIVE Pow10(_)
Pow10(n) == IF n = 0 THEN 1 ELSE 10 * Pow10(n - 1)

Abs(n) == IF n < 0 THEN 0 - n ELSE n

\* the text after the $ and an optional minus sign
Magnitude(t) == IF Len(t) > 1 /\ t[2] = "-" THEN Slice(t, 3, Len(t)) ELSE Slice(t, 2, Len(t))

\* t is $, an optional minus sign, digits, a point and exactly two digits
HasTwoPlaces(t) ==
    /\ Len(t) >= 5
    /\ t[1] = "$"
    /\ Len(Magnitude(t)) >= 4
    /\ Magnitude(t)[Len(Magnitude(t)) - 2] = "."
    /\ IsDigits(Slice(Magnitude(t), 1, Len(Magnitude(t)) - 3))
    /\ IsDigits(Slice(Magnitude(t), Len(Magnitude(t)) - 1, Len(Magnitude(t))))

\* the hundredths a two-place text denotes, without its sign
Hundredths(t) ==
    IntOf(DigitsOf(Slice(Magnitude(t), 1, Len(Magnitude(t)) - 3)
                   \o Slice(Magnitude(t), Len(Magnitude(t)) - 1, Len(Magnitude(t)))))

\* a finite decimal small enough for the arithmetic below
IsSmall(d) ==
    /\ d.kind = "finite"
    /\ Len(d.int) <= 7
    /\ d.exp >= 0 - 9
    /\ Len(d.int) + d.exp + 2 <= 9

\* h hundredths is the value of d rounded half-even to two places: exact when
\* d has at most two places, else within half a hundredth, and even on a tie
IsHalfEvenOf(h, d) ==
    IF d.exp >= 0 - 2 THEN h = IntOf(d.int) * Pow10(d.exp + 2)
    ELSE LET unit == Pow10(0 - 2 - d.exp)
             off  == Abs(IntOf(d.int) - h * unit)
         IN  /\ 2 * off <= unit
             /\ 2 * off = unit => h % 2 = 0

\* C1: no Purchase Price text and no other field value makes convert_row
\* raise: no row aborts the batch, every row is converted and written.
C1_NoRowAbortsTheBatch ==
    /\ pc = "convert" => convert_row(in_row).raise = ""
    /\ pc # "raised"
    /\ pc = "done" => Len(outfile) = Len(infile) + 1

\* C2: the row convert_row returns has exactly the 19 keys of the output
\* columns, and the header and every data record are written in the fixed order.
C2_NineteenColumnsInOrder ==
    /\ pc = "write" =>
          /\ DOMAIN out_row = {ExpectedHeader[i] : i \in 1..Len(ExpectedHeader)}
          /\ Cardinality(DOMAIN out_row) = 19
    /\ Len(outfile) >= 1 => outfile[1] = ExpectedHeader
    /\ \A k \in WrittenRows : \A row \in {convert_row(infile[k]).value} :
          /\ Len(outfile[k + 1]) = 19
          /\ \A i \in 1..19 : outfile[k + 1][i] = Field(row[ExpectedHeader[i]])

\* a row with a column the converter does not read and without the Count
\* column has been converted and written
C2_Witness ==
    /\ pc = "done"
    /\ Len(outfile) = 2
    /\ "Rarity" \in DOMAIN infile[1]
    /\ "Count" \notin DOMAIN infile[1]

C4_ParsedPriceHasTwoPlaces ==
    (pc \in {"write", "raised"} /\ PriceParses(in_row)) =>
        /\ pc = "write"
        /\ HasTwoPlaces(out_row["My Price"])
        /\ IsSmall(ParsedPrice(in_row)) =>
              /\ IsHalfEvenOf(Hundredths(out_row["My Price"]), ParsedPrice(in_row))
              /\ (out_row["My Price"][2] = "-") <=> (ParsedPrice(in_row).sign = 1)

\* what the code does for a price that parses: a finite decimal whose rounded
\* coefficient has at most prec digits is formatted as C4 says; a NaN is
\* printed as NaN; anything else makes quantize raise
PriceFormattedWhenItFits ==
    (pc \in {"write", "raised"} /\ PriceParses(in_row)) =>
        LET d == ParsedPrice(in_row)
        IN  IF d.kind = "nan" THEN pc = "write" /\ ~HasTwoPlaces(out_row["My Price"])
            ELSE IF d.kind \in {"inf", "snan"} THEN pc = "raised"
            ELSE IF d.int # <<0>> /\ Len(d.int) + d.exp + 2 > prec THEN pc = "raised"
            ELSE pc = "raised" \/
                    /\ HasTwoPlaces(out_row["My Price"])
                    /\ IsSmall(d) =>
                          /\ IsHalfEvenOf(Hundredths(out_row["My Price"]), d)
                          /\ (out_row["My Price"][2] = "-") <=> (d.sign = 1)

\* C5: the output Edition Code is the Edition Code Table's entry for the
\* stripped, upper-cased input code when the table has one (3ED gives 3E), the
\* code itself when it has none (ISD gives ISD), and empty for a missing Edition.
C5_EditionCodeRemapped ==
    /\ pc = "write" =>
          /\ out_row["Edition Code"] =
                IF ExpectedCode(in_row) \in DOMAIN edition_code_map
                    THEN edition_code_map[ExpectedCode(in_row)]
                    ELSE ExpectedCode(in_row)
          /\ TextOf(in_row, "Edition") = <<"3", "E", "D">> => out_row["Edition Code"] = <<"3", "E">>
          /\ TextOf(in_row, "Edition") = <<"I", "S", "D">> => out_row["Edition Code"] = <<"I", "S", "D">>
          /\ ("Edition" \notin DOMAIN in_row \/ in_row["Edition"] = None) =>
                out_row["Edition Code"] = <<>>
    /\ \A k \in WrittenRows :
          outfile[k + 1][Column("Edition Code")] =
              IF ExpectedCode(infile[k]) \in DOMAIN edition_code_map
                  THEN edition_code_map[ExpectedCode(infile[k])]
                  ELSE ExpectedCode(infile[k])

\* a code absent from the Edition Code Table, in lower case and with leading
\* whitespace, has been passed through
C5_Witness ==
    /\ pc = "write"
    /\ "Edition" \in DOMAIN in_row
    /\ in_row["Edition"] = <<" ", "i", "s", "d">>
    /\ out_row["Edition Code"] = <<"I", "S", "D">>

\* C6: the output Edition is the Edition Name Table's entry for the stripped,
\* upper-cased input code (MIR gives Mirage), looked up under the input code
\* and not the remapped one, and is empty when the table has no entry.
C6_EditionNameLookedUp ==
    \A k \in WrittenRows :
        /\ outfile[k + 1][Column("Edition")] =
              IF ExpectedCode(infile[k]) \in DOMAIN edition_map
                  THEN edition_map[ExpectedCode(infile[k])]
                  ELSE <<>>
        /\ TextOf(infile[k], "Edition") = <<"M", "I", "R">> =>
              outfile[k + 1][Column("Edition")] = <<"M", "i", "r", "a", "g", "e">>
        /\ ExpectedCode(infile[k]) \notin DOMAIN edition_map =>
              outfile[k + 1][Column("Edition")] = <<>>

\* a code that the Edition Code Table remaps to a code without a set name has
\* been written with the set name of the input code
C6_Witness ==
    /\ Len(outfile) = 2
    /\ TextOf(infile[1], "Edition") = <<"3", "e", "d">>
    /\ outfile[2][Column("Edition")] = <<"R", "e", "v", "i", "s", "e", "d", " ", "E", "d", "i", "t", "i", "o", "n">>
    /\ outfile[2][Column("Edition Code")] = <<"3", "E">>

\* texts that strip and upper-case to the same code as r, the code among them
EditionVariants(r) ==
    { upper(strip(r)), lower(r), <<" ">> \o r, <<"\t">> \o strip(r) \o <<" ">> }

\* C7: two rows whose Edition values are equal once stripped and upper-cased
\* get the same output Edition and Edition Code.  Every text is compared with
\* its own stripped, upper-cased form (and with other texts of that form), so
\* two texts of one form agree with that form and hence with each other.
C7_EditionCaseAndSpaceInsensitive ==
    pc = "write" =>
        \A e \in EditionVariants(TextOf(in_row, "Edition")) :
            /\ upper(strip(e)) = ExpectedCode(in_row)
            /\ \A other \in {convert_row(Assigned(in_row, << <<"Edition", e>> >>))} :
                  /\ other.raise = ""
                  /\ other.value["Edition"] = out_row["Edition"]
                  /\ other.value["Edition Code"] = out_row["Edition Code"]

\* " mir " has been resolved as MIR is
C7_Witness ==
    /\ pc = "write"
    /\ TextOf(in_row, "Edition") = <<" ", "m", "i", "r", " ">>
    /\ out_row["Edition"] = <<"M", "i", "r", "a", "g", "e">>
    /\ out_row["Edition Code"] = <<"M", "I">>

\* the input field and the output column of each copied value
CopiedColumns ==
    { <<"Count", "Count">>, <<"Name", "Name">>, <<"Collector Number", "Card Number">>,
      <<"Condition", "Condition">>, <<"Language", "Language">>, <<"Foil", "Foil">>,
      <<"Tags", "Tags">> }

\* C8: Count, Name, Card Number, Condition, Language, Foil and Tags are the
\* input's Count, Name, Collector Number, Condition, Language, Foil and Tags,
\* unchanged, and empty where the input field is missing.
C8_CopiedColumnsVerbatim ==
    /\ pc = "write" =>
          \A c \in CopiedColumns :
              out_row[c[2]] = IF c[1] \in DOMAIN in_row THEN in_row[c[1]] ELSE <<>>
    /\ \A k \in WrittenRows : \A c \in CopiedColumns :
          outfile[k + 1][Column(c[2])] = TextOf(infile[k], c[1])

\* a row without Tags, with a Name that starts with a space and with an
\* unread Card Number column has been written
C8_Witness ==
    /\ Len(outfile) = 2
    /\ "Tags" \notin DOMAIN infile[1]
    /\ TextOf(infile[1], "Name") = <<" ", "L", "l", "a", "n", "o", "w", "a", "r", " ", "E", "l", "v", "e", "s">>
    /\ TextOf(infile[1], "Card Number") = <<"9", "9", "9">>
    /\ TextOf(infile[1], "Collector Number") = <<"1", "8", "2", "a">>

\* C9: in every output row Tradelist Count is "0" and Signed, Artist Proof,
\* Altered Art, Misprint, Promo, Textless, Printing Id and Printing Note are
\* empty, whatever the input row holds.
C9_ConstantColumns ==
    /\ pc = "write" =>
          /\ out_row["Tradelist Count"] = <<"0">>
          /\ \A c \in {"Signed", "Artist Proof", "Altered Art", "Misprint", "Promo",
                       "Textless", "Printing Id", "Printing Note"} : out_row[c] = <<>>
    /\ \A k \in WrittenRows :
          /\ outfile[k + 1][2] = <<"0">>
          /\ \A i \in 10..17 : outfile[k + 1][i] = <<>>

\* a row whose input has Signed, Promo and Tradelist Count columns of its own
\* has been written
C9_Witness ==
    /\ Len(outfile) = 2
    /\ TextOf(infile[1], "Signed") = <<"y", "e", "s">>
    /\ TextOf(infile[1], "Promo") = <<"T", "r", "u", "e">>
    /\ TextOf(infile[1], "Tradelist Count") = <<"3">>
    /\ TextOf(infile[1], "Count") = <<"4">>

\* C10: when the process ends, the output is the header followed by exactly
\* one record per input row, in input order, record i being the conversion of
\* input row i alone.
C10_OneRecordPerInputRow ==
    pc \in {"done", "raised"} =>
        /\ Len(outfile) = Len(infile) + 1
        /\ outfile[1] = ExpectedHeader
        /\ \A i \in 1..Len(infile) :
              /\ convert_row(infile[i]).raise = ""
              /\ outfile[i + 1] = writerow(convert_row(infile[i]).value).value

\* what the code does: the output is always the header and the conversions of
\* the first input rows, in order, each of its own row alone; a run that ends
\* without an exception has written one record per input row; the input is
\* never changed
OutputFollowsInput ==
    /\ Len(outfile) >= 1 => outfile[1] = ExpectedHeader
    /\ Len(outfile) <= Len(infile) + 1
    /\ \A i \in WrittenRows :
          /\ convert_row(infile[i]).raise = ""
          /\ outfile[i + 1] = writerow(convert_row(infile[i]).value).value
    /\ pc = "done" => Len(outfile) = Len(infile) + 1
    /\ pc = "raised" => Len(outfile) = pos /\ convert_row(infile[pos]).raise # ""

====
